---- MODULE Spec2Model ----
(***************************************************************************)
(* Model of check_solr_index_version_age.py: the per-core evaluation       *)
(* (repstatus / solrping / indexAgeInSeconds over callUrl), the threshold  *)
(* classifier, the status recorder and the aggregation in                  *)
(* checkStatusOfCores.                                                     *)
(*                                                                         *)
(* A Python dict is a function whose DOMAIN is its key set.  The shared    *)
(* dict corestatuschecks holds, under each key, either an int (the run     *)
(* tally under 'errors') or a per-core dict; both are written as one       *)
(* record shape with a kind field so that the two can be told apart.  An   *)
(* uncaught Python exception is the flag fault: every later statement of   *)
(* the run is skipped and the run ends in pc = "fault".                    *)
(***************************************************************************)
EXTENDS Integers, Sequences, FiniteSets, TLC

\* ---------------------------------------------------------------- bounds
MaxCores == 2          \* most cores given with -i in one run
MaxThreshold == 3      \* largest -c value of a run (seconds)
MaxVersionSec == 3     \* largest whole second of an index version
MaxLag == 5            \* largest lag and threshold handed to the classifier on its own
MaxNegLag == 3         \* the classifier on its own is tried down to -MaxNegLag

\* -------------------------------------------------------- input universes
CoreNameUniverse == {"core1", "core2", "errors"}

MsPerSec == 1000
MicrosPerSec == 1000000
SecPerDay == 24 * 3600

\* index versions (milliseconds) tried on indexDiffInSeconds alone
SubSecond == {0, 1, 999}
VersionValues == {k * MsPerSec + r : k \in 0..MaxVersionSec, r \in SubSecond}
\* index versions (milliseconds) and datetime.today() values (microseconds) of a run
RunVersions == {k * MsPerSec : k \in {0, 2, MaxVersionSec}}
NowValues == {500000, MaxVersionSec * MicrosPerSec + 500000}

\* ------------------------------------------------------------ Python dicts
EmptyMap == [k \in {} |-> 0]
Has(d, k) == k \in DOMAIN d
len(d) == Cardinality(DOMAIN d)
\* Python's None for an optional index version: the empty tuple; <<v>> is v
None == <<>>
get(d, k) == IF Has(d, k) THEN <<d[k]>> ELSE None

\* values stored in corestatuschecks
IntVal(n) == [kind |-> "int", n |-> n, critical |-> 0, warning |-> 0, msg |-> "", age |-> 0]
NewCoreDict == [kind |-> "dict", n |-> 0, critical |-> 0, warning |-> 0, msg |-> "", age |-> -1]

\* ----------------------------------------------------------------- state
VARIABLES
    check_replication, check_ping, check_age,   \* the three mode flags
    threshold_warn, threshold_crit,
    corenames,          \* list of unique core names
    corestatuschecks,   \* the shared dict
    pc,                 \* "prepare", "loop", "aggregate", "done", "returned", "fault"
    idx,                \* position of the main loop in corenames
    response,           \* core -> what urlopen/json.loads produced for it
    duration,           \* core -> value returned by its extractor
    status,             \* core -> classification handed to recordCheckStatus
    msglog,             \* core -> messages passed to recordCheckMsg, in order
    criticalCores, warningCores, okCores,
    printed,            \* number of report lines printed
    reportStatus,       \* "status" field of the report line
    num_ok_cores,       \* "num_ok_cores" field of the report line
    exitCode,           \* argument of exit(), -1 while exit() was not called
    lag, warningThreshold, criticalThreshold, lagStatus,   \* classifier on its own
    indexversion1, indexversion2, indexDiff, fpc           \* indexDiffInSeconds on its own

vars == <<check_replication, check_ping, check_age, threshold_warn, threshold_crit,
          corenames, corestatuschecks, pc, idx, response, duration, status, msglog,
          criticalCores, warningCores, okCores, printed, reportStatus, num_ok_cores, exitCode,
          lag, warningThreshold, criticalThreshold, lagStatus,
          indexversion1, indexversion2, indexDiff, fpc>>

runVars == <<check_replication, check_ping, check_age, threshold_warn, threshold_crit,
             corenames, corestatuschecks, pc, idx, response, duration, status, msglog,
             criticalCores, warningCores, okCores, printed, reportStatus, num_ok_cores, exitCode>>
fnVars == <<lag, warningThreshold, criticalThreshold, lagStatus,
            indexversion1, indexversion2, indexDiff, fpc>>

\* ------------------------------------------------------------- messages
MsgUrlTimeout == "timeout calling "
MsgUrlException == "exception calling "
MsgSocketTimeout == "timeout calling:"
MsgSocketError == "socket error calling:"
MsgAllSlave == "All Slave index version information not available. Host ok? "
MsgNoMasterDetails == "Slave unable to retrieve master index version information. Host able to contact master? "
MsgNoSlaveVersion == "Slave index version information not available. Is this replicating? "
MsgNoMasterVersion == "Master index version information not available. Is the master avaialable? "
MsgNoIndexVersion == "index version information not available. Is the node avaialable? "

\* ------------------------------------------------- recording into the dict
\* The running state of the interpreter inside one handler: the shared dict,
\* the messages recorded so far, and whether an exception is propagating.
\* corestatuschecks[core][field] = value   (TypeError when the entry is an int)
SetField(st, core, field, value) ==
    IF st.fault THEN st
    ELSE IF st.csc[core].kind # "dict" THEN [st EXCEPT !.fault = TRUE]
    ELSE [st EXCEPT !.csc[core][field] = value]

recordAge(core, age, st) == SetField(st, core, "age", age)

recordCheckMsg(core, msg, st) ==
    IF st.fault THEN st
    ELSE LET w == SetField(st, core, "msg", msg)
         IN  IF w.fault THEN w
             ELSE [w EXCEPT !.msglog[core] = Append(@, msg)]

\* statusMap['errors'] += 1   (TypeError when a dict sits under 'errors')
BumpErrors(st) ==
    IF st.fault THEN st
    ELSE IF st.csc["errors"].kind # "int" THEN [st EXCEPT !.fault = TRUE]
    ELSE [st EXCEPT !.csc["errors"].n = @ + 1]

\* statusMap[core][field] += 1   (TypeError when the entry is an int)
BumpField(st, core, field) ==
    IF st.fault THEN st
    ELSE IF st.csc[core].kind # "dict" THEN [st EXCEPT !.fault = TRUE]
    ELSE [st EXCEPT !.csc[core][field] = @ + 1]

\* a variant whose WARNING branch leaves the run tally alone
recordCheckStatusWarningUncounted(core, stat, st) ==
    IF stat = "CRITICAL" \/ stat = "ERROR" THEN BumpField(BumpErrors(st), core, "critical")
    ELSE IF stat = "WARNING" THEN BumpField(st, core, "warning")
    ELSE st

recordCheckStatus(core, stat, st) ==
    IF stat = "CRITICAL" \/ stat = "ERROR" THEN BumpField(BumpErrors(st), core, "critical")
    ELSE IF stat = "WARNING" THEN BumpField(BumpErrors(st), core, "warning")
    ELSE st

\* ------------------------------------------------------------ the transport
\* What urlopen + json.loads did for one request: kind "ok" carries the parsed
\* mapping, every other kind is the exception raised.
FailureKinds == {"URLError_timeout", "URLError", "socket_timeout", "socket_error", "ValueError"}
TimeoutKinds == {"URLError_timeout", "socket_timeout"}

\* a variant whose socket.timeout clause records nothing
callUrlSilentTimeout(resp, core, st) ==
    IF st.fault THEN [data |-> EmptyMap, st |-> st]
    ELSE IF resp.kind = "ok" THEN [data |-> resp.data, st |-> st]
    ELSE IF resp.kind = "URLError_timeout"
        THEN [data |-> EmptyMap, st |-> recordCheckMsg(core, MsgUrlTimeout, st)]
    ELSE IF resp.kind = "URLError"
        THEN [data |-> EmptyMap, st |-> recordCheckMsg(core, MsgUrlException, st)]
    ELSE IF resp.kind = "socket_timeout"
        THEN [data |-> EmptyMap, st |-> st]
    ELSE IF resp.kind = "socket_error"
        THEN [data |-> EmptyMap, st |-> recordCheckMsg(core, MsgSocketError, st)]
    ELSE [data |-> EmptyMap, st |-> [st EXCEPT !.fault = TRUE]]

\* returns [data, st]; an exception no except clause names keeps propagating
callUrl(resp, core, st) ==
    IF st.fault THEN [data |-> EmptyMap, st |-> st]
    ELSE IF resp.kind = "ok" THEN [data |-> resp.data, st |-> st]
    ELSE IF resp.kind = "URLError_timeout"
        THEN [data |-> EmptyMap, st |-> recordCheckMsg(core, MsgUrlTimeout, st)]
    ELSE IF resp.kind = "URLError"
        THEN [data |-> EmptyMap, st |-> recordCheckMsg(core, MsgUrlException, st)]
    ELSE IF resp.kind = "socket_timeout"
        THEN [data |-> EmptyMap, st |-> recordCheckMsg(core, MsgSocketTimeout, st)]
    ELSE IF resp.kind = "socket_error"
        THEN [data |-> EmptyMap, st |-> recordCheckMsg(core, MsgSocketError, st)]
    ELSE [data |-> EmptyMap, st |-> [st EXCEPT !.fault = TRUE]]

\* ------------------------------------------------------------- arithmetic
\* a datetime is its number of microseconds since the epoch; a timedelta is
\* the normalised triple (days, seconds, microseconds)
fromtimestamp(seconds) == seconds * MicrosPerSec
timedelta(us) == [days |-> (us \div MicrosPerSec) \div SecPerDay,
                  seconds |-> (us \div MicrosPerSec) % SecPerDay,
                  microseconds |-> us % MicrosPerSec]

diffInSeconds(date1, date2) ==
    LET td == IF date1 > date2 THEN timedelta(date1 - date2) ELSE timedelta(date2 - date1)
    IN  (td.microseconds + (td.seconds + td.days * SecPerDay) * MicrosPerSec) \div MicrosPerSec

\* a variant that keeps the milliseconds of each version (true division)
indexDiffKeepingMillis(iv1, iv2) ==
    diffInSeconds(iv1 * (MicrosPerSec \div MsPerSec), iv2 * (MicrosPerSec \div MsPerSec))

indexDiffInSeconds(iv1, iv2) ==
    diffInSeconds(fromtimestamp(iv1 \div MsPerSec), fromtimestamp(iv2 \div MsPerSec))

\* a variant that answers ERROR for every negative lag
checkIndexLagNegativeIsError(l, warningT, criticalT) ==
    IF l < 0 THEN "ERROR"
    ELSE IF l > criticalT THEN "CRITICAL"
    ELSE IF l > warningT THEN "WARNING"
    ELSE "OK"

\* a variant that moves the boundaries: a lag equal to a threshold takes the
\* next severity
checkIndexLagInclusive(l, warningT, criticalT) ==
    IF l = -1 THEN "ERROR"
    ELSE IF l >= criticalT THEN "CRITICAL"
    ELSE IF l >= warningT THEN "WARNING"
    ELSE "OK"

checkIndexLagAgainstThresholds(l, warningT, criticalT) ==
    IF l = -1 THEN "ERROR"
    ELSE IF l > criticalT THEN "CRITICAL"
    ELSE IF l > warningT THEN "WARNING"
    ELSE "OK"

\* ------------------------------------------------------------- extractors
\* each returns [ret, st]; ret is meaningless once st.fault is set
repstatus(core, resp, st) ==
    LET r == callUrl(resp, core, st)
        rdata == r.data
        diff0 == IF len(rdata) = 0 THEN -1 ELSE 0
        noSlave == ~Has(rdata, "details") \/ ~Has(rdata.details, "slave")
        noMaster == ~noSlave /\ ~Has(rdata.details.slave, "masterDetails")
        st1 == IF noSlave
                  THEN (IF diff0 # -1 THEN recordCheckMsg(core, MsgAllSlave, r.st) ELSE r.st)
               ELSE IF noMaster THEN recordCheckMsg(core, MsgNoMasterDetails, r.st)
               ELSE r.st
        diff1 == IF noSlave \/ noMaster THEN -1 ELSE diff0
        slaveindexversion == IF noSlave THEN None ELSE get(rdata.details, "indexVersion")
        masterindexversion == IF noSlave \/ noMaster THEN None
                              ELSE get(rdata.details.slave.masterDetails, "indexVersion")
        st2 == IF slaveindexversion = None
                  THEN (IF diff1 # -1 THEN recordCheckMsg(core, MsgNoSlaveVersion, st1) ELSE st1)
               ELSE IF masterindexversion = None
                  THEN (IF diff1 # -1 THEN recordCheckMsg(core, MsgNoMasterVersion, st1) ELSE st1)
               ELSE st1
        diff2 == IF slaveindexversion = None \/ masterindexversion = None THEN -1
                 ELSE indexDiffInSeconds(masterindexversion[1], slaveindexversion[1])
    IN  [ret |-> diff2, st |-> recordAge(core, diff2, st2)]

\* a variant that takes a mapping without a status field for healthy
solrpingAbsentIsOk(core, resp, st) ==
    LET r == callUrl(resp, core, st)
        data == r.data
    IN  [ret |-> IF len(data) = 0 THEN "CRITICAL"
                 ELSE IF Has(data, "status") /\ data.status # "OK" THEN "CRITICAL"
                 ELSE "OK",
         st |-> r.st]

solrping(core, resp, st) ==
    LET r == callUrl(resp, core, st)
        data == r.data
    IN  [ret |-> IF len(data) = 0 THEN "CRITICAL"
                 ELSE IF Has(data, "status") /\ data.status = "OK" THEN "OK"
                 ELSE "CRITICAL",
         st |-> r.st]

indexAgeInSeconds(core, resp, st) ==
    LET r == callUrl(resp, core, st)
        data == r.data
        present == Has(data, "indexversion")
        diff == IF present
                   THEN diffInSeconds(resp.today, fromtimestamp(data.indexversion \div MsPerSec))
                ELSE -1
        st1 == IF present THEN r.st ELSE recordCheckMsg(core, MsgNoIndexVersion, r.st)
    IN  [ret |-> diff, st |-> recordAge(core, diff, st1)]

\* ------------------------------------------------ responses a run may get
Opt(k, o) == IF o = None THEN EmptyMap ELSE (k :> o[1])
OptVersions == {None} \cup {<<v>> : v \in RunVersions}
OptMasterDetails == {None} \cup {<<Opt("indexVersion", v)>> : v \in OptVersions}
OptSlave == {None} \cup {<<Opt("masterDetails", md)>> : md \in OptMasterDetails}
RepDetails == {Opt("indexVersion", v) @@ Opt("slave", sl) : v \in OptVersions, sl \in OptSlave}
OtherMap == ("responseHeader" :> 0)
RepMaps == {EmptyMap, OtherMap} \cup {("details" :> d) : d \in RepDetails}
PingMaps == {EmptyMap, OtherMap, ("status" :> "OK"), ("status" :> "ERROR")}
AgeMaps == {EmptyMap, OtherMap} \cup {("indexversion" :> v) : v \in RunVersions}

Failures == {[kind |-> k, data |-> EmptyMap, today |-> 0] : k \in FailureKinds}
RepResponses == Failures \cup {[kind |-> "ok", data |-> d, today |-> 0] : d \in RepMaps}
PingResponses == Failures \cup {[kind |-> "ok", data |-> d, today |-> 0] : d \in PingMaps}
\* datetime.today() is read only when the mapping has an indexversion
AgeResponses == Failures
    \cup {[kind |-> "ok", data |-> d, today |-> 0] : d \in {EmptyMap, OtherMap}}
    \cup {[kind |-> "ok", data |-> ("indexversion" :> v), today |-> t] : v \in RunVersions, t \in NowValues}

\* ------------------------------------------------------------ preparation
RECURSIVE prepareFrom(_, _, _)
prepareFrom(names, k, csc) ==
    IF k > Len(names) THEN csc
    ELSE prepareFrom(names, k + 1, (names[k] :> NewCoreDict) @@ ("errors" :> IntVal(0)) @@ csc)

prepareCoreStatusDataStructure(names, csc) == prepareFrom(names, 1, csc)

\* ------------------------------------------------------------ aggregation
Range(seq) == {seq[k] : k \in 1..Len(seq)}

\* a variant without the elif branch for the critical counter
CoreSetOfNoCritical(rec) == IF rec.warning > 0 THEN "warning" ELSE "ok"

\* the set one core is added to by the loop of checkStatusOfCores
CoreSetOf(rec) ==
    IF rec.warning > 0 THEN "warning"
    ELSE IF rec.critical > 0 THEN "critical"
    ELSE "ok"

\* reading corestatuschecks[core]['warning'] raises TypeError on an int entry
LoopFaults(csc, names) == \E c \in Range(names) : csc[c].kind # "dict"

CoresIn(csc, names, which) == {c \in Range(names) : CoreSetOf(csc[c]) = which}

\* a variant that tests the warning set before the critical set
VerdictWarningFirst(errors, critical, warning) ==
    IF errors > 0
      THEN IF Cardinality(warning) > 0 THEN [printed |-> 1, status |-> "WARNING", exit |-> 1]
           ELSE IF Cardinality(critical) > 0 THEN [printed |-> 1, status |-> "CRITICAL", exit |-> 2]
           ELSE [printed |-> 0, status |-> "", exit |-> -1]
      ELSE [printed |-> 1, status |-> "OK", exit |-> 0]

\* the if/elif/else at the end of checkStatusOfCores: what is printed and
\* the argument of exit(); neither when the function falls through
Verdict(errors, critical, warning) ==
    IF errors > 0
      THEN IF Cardinality(critical) > 0 THEN [printed |-> 1, status |-> "CRITICAL", exit |-> 2]
           ELSE IF Cardinality(warning) > 0 THEN [printed |-> 1, status |-> "WARNING", exit |-> 1]
           ELSE [printed |-> 0, status |-> "", exit |-> -1]
      ELSE [printed |-> 1, status |-> "OK", exit |-> 0]

\* ---------------------------------------------------------------- the run
RECURSIVE Perms(_)
Perms(S) == IF S = {} THEN {<<>>}
            ELSE UNION {{<<x>> \o p : p \in Perms(S \ {x})} : x \in S}

CoreLists == UNION {Perms(S) : S \in {T \in SUBSET CoreNameUniverse :
                                         Cardinality(T) >= 1 /\ Cardinality(T) <= MaxCores}}

FnIdle ==
    /\ lag = 0 /\ warningThreshold = 0 /\ criticalThreshold = 0 /\ lagStatus = ""
    /\ indexversion1 = 0 /\ indexversion2 = 0 /\ indexDiff = 0 /\ fpc = "idle"

\* main() up to line 499: options parsed and validated, corestatuschecks = dict()
Init ==
    /\ check_replication \in BOOLEAN /\ check_ping \in BOOLEAN /\ check_age \in BOOLEAN
    /\ check_replication \/ check_ping \/ check_age
    /\ threshold_warn \in 1..(MaxThreshold - 1)
    /\ threshold_crit \in (threshold_warn + 1)..MaxThreshold
    /\ corenames \in CoreLists
    /\ corestatuschecks = EmptyMap
    /\ pc = "prepare"
    /\ idx = 1
    /\ response = EmptyMap /\ duration = EmptyMap /\ status = EmptyMap
    /\ msglog = [c \in Range(corenames) |-> <<>>]
    /\ criticalCores = {} /\ warningCores = {} /\ okCores = {}
    /\ printed = 0 /\ reportStatus = "" /\ num_ok_cores = 0 /\ exitCode = -1
    /\ FnIdle

Prepare ==
    /\ pc = "prepare"
    /\ corestatuschecks' = prepareCoreStatusDataStructure(corenames, corestatuschecks)
    /\ pc' = "loop"
    /\ UNCHANGED <<check_replication, check_ping, check_age, threshold_warn, threshold_crit,
                   corenames, idx, response, duration, status, msglog,
                   criticalCores, warningCores, okCores, printed, reportStatus,
                   num_ok_cores, exitCode>>
    /\ UNCHANGED fnVars

\* the tail every branch of the loop body shares: the state after the
\* extractor e and recordCheckStatus for core, given the classification stat
Recorded(core, resp, e, stat, hasDuration) ==
    LET st1 == recordCheckStatus(core, stat, e.st)
    IN  /\ corestatuschecks' = st1.csc
        /\ msglog' = st1.msglog
        /\ response' = (core :> resp) @@ response
        /\ duration' = IF hasDuration /\ ~e.st.fault THEN (core :> e.ret) @@ duration ELSE duration
        /\ status' = IF ~e.st.fault THEN (core :> stat) @@ status ELSE status
        /\ pc' = IF st1.fault THEN "fault"
                 ELSE IF idx = Len(corenames) THEN "aggregate" ELSE "loop"
        /\ idx' = IF st1.fault THEN idx ELSE idx + 1
        /\ UNCHANGED <<check_replication, check_ping, check_age, threshold_warn, threshold_crit,
                       corenames, criticalCores, warningCores, okCores, printed, reportStatus,
                       num_ok_cores, exitCode>>
        /\ UNCHANGED fnVars

Start == [csc |-> corestatuschecks, msglog |-> msglog, fault |-> FALSE]

EvalReplication ==
    /\ pc = "loop" /\ idx <= Len(corenames)
    /\ check_replication
    /\ \E resp \in RepResponses :
         LET core == corenames[idx]
             e == repstatus(core, resp, Start)
             stat == checkIndexLagAgainstThresholds(e.ret, threshold_warn, threshold_crit)
         IN  Recorded(core, resp, e, stat, TRUE)

EvalPing ==
    /\ pc = "loop" /\ idx <= Len(corenames)
    /\ ~check_replication /\ check_ping
    /\ \E resp \in PingResponses :
         LET core == corenames[idx]
             e == solrping(core, resp, Start)
         IN  Recorded(core, resp, e, e.ret, FALSE)

EvalAge ==
    /\ pc = "loop" /\ idx <= Len(corenames)
    /\ ~check_replication /\ ~check_ping /\ check_age
    /\ \E resp \in AgeResponses :
         LET core == corenames[idx]
             e == indexAgeInSeconds(core, resp, Start)
             stat == checkIndexLagAgainstThresholds(e.ret, threshold_warn, threshold_crit)
         IN  Recorded(core, resp, e, stat, TRUE)

\* checkStatusOfCores, called by whichever branch of main's last if/elif
Aggregate ==
    /\ pc = "aggregate"
    /\ IF LoopFaults(corestatuschecks, corenames) \/ corestatuschecks["errors"].kind # "int"
         THEN /\ pc' = "fault"
              /\ UNCHANGED <<criticalCores, warningCores, okCores, printed, reportStatus,
                             num_ok_cores, exitCode>>
         ELSE LET critical == CoresIn(corestatuschecks, corenames, "critical")
                  warning == CoresIn(corestatuschecks, corenames, "warning")
                  v == Verdict(corestatuschecks["errors"].n, critical, warning)
              IN  /\ criticalCores' = critical
                  /\ warningCores' = warning
                  /\ okCores' = CoresIn(corestatuschecks, corenames, "ok")
                  /\ num_ok_cores' = Len(corenames) - corestatuschecks["errors"].n
                  /\ printed' = printed + v.printed
                  /\ reportStatus' = v.status
                  /\ exitCode' = v.exit
                  /\ pc' = IF v.exit = -1 THEN "returned" ELSE "done"
    /\ UNCHANGED <<check_replication, check_ping, check_age, threshold_warn, threshold_crit,
                   corenames, corestatuschecks, idx, response, duration, status, msglog>>
    /\ UNCHANGED fnVars

Next == Prepare \/ EvalReplication \/ EvalPing \/ EvalAge \/ Aggregate

Spec == Init /\ [][Next]_vars

\* ------------------------------------------ the pure functions on their own
RunIdle ==
    /\ check_replication = FALSE /\ check_ping = FALSE /\ check_age = FALSE
    /\ threshold_warn = 0 /\ threshold_crit = 0
    /\ corenames = <<>> /\ corestatuschecks = EmptyMap
    /\ pc = "idle" /\ idx = 1
    /\ response = EmptyMap /\ duration = EmptyMap /\ status = EmptyMap /\ msglog = EmptyMap
    /\ criticalCores = {} /\ warningCores = {} /\ okCores = {}
    /\ printed = 0 /\ reportStatus = "" /\ num_ok_cores = 0 /\ exitCode = -1

InitClassify ==
    /\ RunIdle
    /\ lag \in (0 - MaxNegLag)..MaxLag
    /\ warningThreshold \in 0..MaxLag
    /\ criticalThreshold \in 0..MaxLag
    /\ lagStatus = ""
    /\ indexversion1 = 0 /\ indexversion2 = 0 /\ indexDiff = 0
    /\ fpc = "start"

Classify ==
    /\ fpc = "start"
    /\ lagStatus' = checkIndexLagAgainstThresholds(lag, warningThreshold, criticalThreshold)
    /\ fpc' = "classified"
    /\ UNCHANGED <<lag, warningThreshold, criticalThreshold, indexversion1, indexversion2, indexDiff>>
    /\ UNCHANGED runVars

SpecClassify == InitClassify /\ [][Classify]_vars

InitDiff ==
    /\ RunIdle
    /\ lag = 0 /\ warningThreshold = 0 /\ criticalThreshold = 0 /\ lagStatus = ""
    /\ indexversion1 \in VersionValues
    /\ indexversion2 \in VersionValues
    /\ indexDiff = 0
    /\ fpc = "start"

Diff ==
    /\ fpc = "start"
    /\ indexDiff' = indexDiffInSeconds(indexversion1, indexversion2)
    /\ fpc' = "computed"
    /\ UNCHANGED <<lag, warningThreshold, criticalThreshold, lagStatus, indexversion1, indexversion2>>
    /\ UNCHANGED runVars

SpecDiff == InitDiff /\ [][Diff]_vars

\* ================================================================= claims
Cores == Range(corenames)
\* the loop body for core c ran to its end
Completed(c) ==
    c \in DOMAIN status /\ ~(pc = "fault" /\ idx <= Len(corenames) /\ corenames[idx] = c)
\* checkStatusOfCores ran to its end
Aggregated == pc \in {"done", "returned"}
NonOk == {"CRITICAL", "ERROR"}

\* C1: when the aggregation has run, the report's status and the exit code
\* are the worst classification of any core: 2/CRITICAL iff some core was
\* classified CRITICAL or ERROR, 1/WARNING iff none was and some core was
\* classified WARNING, 0/OK iff every core was classified OK.
C1_WorstClassification ==
    Aggregated =>
        LET anyCritical == \E c \in Cores : status[c] \in NonOk
            anyWarning == \E c \in Cores : status[c] = "WARNING"
            allOk == \A c \in Cores : status[c] = "OK"
        IN  /\ (exitCode = 2) <=> anyCritical
            /\ (reportStatus = "CRITICAL") <=> anyCritical
            /\ (exitCode = 1) <=> (~anyCritical /\ anyWarning)
            /\ (reportStatus = "WARNING") <=> (~anyCritical /\ anyWarning)
            /\ (exitCode = 0) <=> allOk
            /\ (reportStatus = "OK") <=> allOk

C1_Witness ==
    /\ pc = "done" /\ exitCode = 2
    /\ \E c \in Cores : status[c] = "WARNING"
    /\ \E c \in Cores : status[c] = "ERROR"

\* C2: for thresholds crit > warn >= 0 and a lag that is -1 or >= 0, the
\* classifier returns ERROR iff lag = -1, CRITICAL iff lag > crit, WARNING
\* iff warn < lag <= crit, OK iff 0 <= lag <= warn.
C2_Classifier ==
    (/\ fpc = "classified"
     /\ criticalThreshold > warningThreshold /\ warningThreshold >= 0
     /\ (lag = -1 \/ lag >= 0))
    => /\ (lagStatus = "ERROR") <=> (lag = -1)
       /\ (lagStatus = "CRITICAL") <=> (lag > criticalThreshold)
       /\ (lagStatus = "WARNING") <=> (warningThreshold < lag /\ lag <= criticalThreshold)
       /\ (lagStatus = "OK") <=> (0 <= lag /\ lag <= warningThreshold)

C2_Witness ==
    /\ fpc = "classified"
    /\ criticalThreshold > warningThreshold /\ warningThreshold > 0
    /\ lag = criticalThreshold /\ lagStatus = "WARNING"

\* C3: when the aggregation has run, the critical, warning and ok sets
\* partition the cores by classification: critical holds exactly the cores
\* classified CRITICAL or ERROR, warning those classified WARNING, ok those
\* classified OK; no core with a critical count > 0 is in the warning set,
\* and the three sizes add up to the number of cores checked.
C3_Partition ==
    Aggregated =>
        /\ criticalCores = {c \in Cores : status[c] \in NonOk}
        /\ warningCores = {c \in Cores : status[c] = "WARNING"}
        /\ okCores = {c \in Cores : status[c] = "OK"}
        /\ criticalCores \cap warningCores = {}
        /\ criticalCores \cap okCores = {}
        /\ warningCores \cap okCores = {}
        /\ criticalCores \cup warningCores \cup okCores = Cores
        /\ \A c \in Cores : corestatuschecks[c].critical > 0 => c \notin warningCores
        /\ Cardinality(criticalCores) + Cardinality(warningCores) + Cardinality(okCores)
             = Len(corenames)

C3_Witness ==
    /\ pc = "done"
    /\ Cardinality(criticalCores) = 1 /\ Cardinality(warningCores) = 1
    /\ \E c \in criticalCores : status[c] = "ERROR"

\* C4: in each check mode, a core whose fetch timed out and whose loop body
\* ran to its end has age = -1 and a non-empty msg in its record and is
\* counted as critical (critical counter > 0, classified CRITICAL or ERROR,
\* and in the critical set once the aggregation has run).
C4_TimeoutRecorded ==
    \A c \in Cores :
        (Completed(c) /\ response[c].kind \in TimeoutKinds) =>
            /\ corestatuschecks[c].age = -1
            /\ corestatuschecks[c].msg # ""
            /\ corestatuschecks[c].critical > 0
            /\ status[c] \in NonOk
            /\ (Aggregated => c \in criticalCores)

C4_Witness ==
    /\ ~check_replication /\ ~check_ping /\ check_age
    /\ pc = "done"
    /\ \E c \in Cores : /\ response[c].kind = "socket_timeout"
                        /\ corestatuschecks[c].age = -1
                        /\ c \in criticalCores

\* C5: whatever the fetch outcome, callUrl hands a value back and no fault
\* leaves it, so the run is never aborted and the loop body of every core
\* given a response ran to its end.
C5_FetchNeverAborts ==
    "errors" \notin Cores =>
        /\ pc # "fault"
        /\ \A c \in DOMAIN response : Completed(c)

\* C6: every run that ends has printed exactly one report line and called
\* exit() with 0, 1 or 2.
C6_OneReportOneExit ==
    ("errors" \notin Cores /\ pc \in {"done", "returned", "fault"}) =>
        /\ printed = 1
        /\ exitCode \in {0, 1, 2}

\* C7: when the ping branch of the loop runs, a core is classified OK iff its
\* fetch succeeded with a non-empty mapping whose status field is "OK", and
\* CRITICAL otherwise; the classification is a function of the response
\* alone, whatever the thresholds, and is never WARNING or ERROR.
C7_Ping ==
    (~check_replication /\ check_ping) =>
        \A c \in Cores :
            c \in DOMAIN status =>
                /\ status[c] \in {"OK", "CRITICAL"}
                /\ (status[c] = "OK") <=>
                      /\ response[c].kind = "ok"
                      /\ len(response[c].data) > 0
                      /\ Has(response[c].data, "status")
                      /\ response[c].data.status = "OK"

C7_Witness ==
    /\ ~check_replication /\ check_ping
    /\ pc = "done" /\ exitCode = 2
    /\ \E c \in Cores : response[c].kind = "ok" /\ response[c].data = OtherMap
                        /\ status[c] = "CRITICAL"
    /\ \E c \in Cores : status[c] = "OK"

Abs(x) == IF x < 0 THEN 0 - x ELSE x

\* C8 as stated: the replication lag is the absolute difference of the two
\* millisecond versions with its sub-second remainder truncated,
\* floor(|m - s| / 1000).
C8_FloorOfDifference ==
    fpc = "computed" => indexDiff = Abs(indexversion1 - indexversion2) \div MsPerSec

\* C8 amended: the replication lag is the absolute difference of the two
\* versions after each was truncated to whole seconds,
\* |floor(m / 1000) - floor(s / 1000)|.
C8_DifferenceOfFloors ==
    fpc = "computed" =>
        indexDiff = Abs((indexversion1 \div MsPerSec) - (indexversion2 \div MsPerSec))

C8_Witness ==
    /\ fpc = "computed"
    /\ Abs(indexversion1 - indexversion2) < MsPerSec
    /\ indexDiff = 1

ClassifierPrecondition ==
    /\ fpc = "classified"
    /\ criticalThreshold > warningThreshold /\ warningThreshold >= 0

\* C9 as stated: for thresholds crit > warn >= 0 every negative lag is
\* classified ERROR.
C9_NegativeIsError ==
    (ClassifierPrecondition /\ lag < 0) => lagStatus = "ERROR"

\* C9 amended: for thresholds crit > warn >= 0 a negative lag is classified
\* ERROR iff it is -1; every lag below -1 is classified OK.
C9_OnlyMinusOneIsError ==
    (ClassifierPrecondition /\ lag < 0) =>
        /\ (lagStatus = "ERROR") <=> (lag = -1)
        /\ (lag < -1) => lagStatus = "OK"

C9_Witness ==
    /\ ClassifierPrecondition
    /\ lag < -1 /\ lagStatus = "OK"

\* the step of repstatus the claim names as the first to fail for a response
FirstFailure(resp) ==
    IF resp.kind # "ok" THEN "fetch"
    ELSE IF len(resp.data) = 0 THEN "empty"
    ELSE IF ~Has(resp.data, "details") \/ ~Has(resp.data.details, "slave") THEN "slave"
    ELSE IF ~Has(resp.data.details.slave, "masterDetails") THEN "masterDetails"
    ELSE IF ~Has(resp.data.details, "indexVersion") THEN "slaveVersion"
    ELSE IF ~Has(resp.data.details.slave.masterDetails, "indexVersion") THEN "masterVersion"
    ELSE "none"

FetchMsg(kind) ==
    IF kind = "URLError_timeout" THEN MsgUrlTimeout
    ELSE IF kind = "URLError" THEN MsgUrlException
    ELSE IF kind = "socket_timeout" THEN MsgSocketTimeout
    ELSE MsgSocketError

\* whether m is the message of the first failing step (for an empty mapping
\* the claim asks only for some non-empty message)
IsFirstFailureMsg(resp, m) ==
    LET f == FirstFailure(resp)
    IN  /\ m # ""
        /\ f = "fetch" => m = FetchMsg(resp.kind)
        /\ f = "slave" => m = MsgAllSlave
        /\ f = "masterDetails" => m = MsgNoMasterDetails
        /\ f = "slaveVersion" => m = MsgNoSlaveVersion
        /\ f = "masterVersion" => m = MsgNoMasterVersion

\* what C10 says of one core whose extractor returned
OneDiagnostic(c) ==
    IF duration[c] = -1
      THEN /\ FirstFailure(response[c]) # "none"
           /\ Len(msglog[c]) = 1
           /\ IsFirstFailureMsg(response[c], msglog[c][1])
           /\ corestatuschecks[c].msg = msglog[c][1]
      ELSE /\ FirstFailure(response[c]) = "none"
           /\ msglog[c] = <<>>
           /\ corestatuschecks[c].msg = ""
           /\ duration[c] = indexDiffInSeconds(
                  response[c].data.details.slave.masterDetails.indexVersion,
                  response[c].data.details.indexVersion)

\* C10: in replication mode, a core whose extractor returned -1 has exactly
\* one recorded diagnostic, non-empty and that of the first failing step;
\* a core for which no step failed has none and its duration is the
\* computed difference.
C10_OneDiagnostic ==
    check_replication => \A c \in Cores : c \in DOMAIN duration => OneDiagnostic(c)

\* the run tally, corestatuschecks['errors'], where an int is stored there
TallyIsInt == Has(corestatuschecks, "errors") /\ corestatuschecks["errors"].kind = "int"
Tally == corestatuschecks["errors"].n

\* one pass of the loop body that ran to its end adds one to the tally when
\* the core was classified WARNING, CRITICAL or ERROR and nothing when it was
\* classified OK; no step lowers the tally
TallyStep ==
    /\ (TallyIsInt /\ TallyIsInt') => Tally' >= Tally
    /\ (pc = "loop" /\ pc' \in {"loop", "aggregate"} /\ TallyIsInt) =>
          /\ TallyIsInt'
          /\ Tally' = Tally + (IF status'[corenames[idx]] = "OK" THEN 0 ELSE 1)

\* at aggregation the tally is the number of cores not classified OK, and
\* the reported num_ok_cores is the size of the ok set
TallyAtAggregation ==
    (pc \in {"aggregate", "done", "returned"} /\ TallyIsInt) =>
        /\ Tally = Cardinality({c \in Cores : status[c] # "OK"})
        /\ Aggregated => num_ok_cores = Cardinality(okCores)

\* C11: during evaluation the run tally never decreases and grows by exactly
\* one for each core classified WARNING, CRITICAL or ERROR and by zero for
\* each core classified OK; at aggregation it equals the number of non-OK
\* cores and the reported num_ok_cores equals the size of the ok set.
C11_Tally == [][TallyStep]_vars /\ []TallyAtAggregation

C11_Witness ==
    /\ pc = "done"
    /\ Len(corenames) = 2
    /\ Tally = 1 /\ num_ok_cores = 1
    /\ \E c \in Cores : status[c] = "WARNING"

\* what the evaluation of core c alone leaves in its record
OwnRecord(c) ==
    /\ corestatuschecks[c].kind = "dict"
    /\ corestatuschecks[c].critical = (IF status[c] \in NonOk THEN 1 ELSE 0)
    /\ corestatuschecks[c].warning = (IF status[c] = "WARNING" THEN 1 ELSE 0)
    /\ corestatuschecks[c].msg = (IF msglog[c] = <<>> THEN "" ELSE msglog[c][Len(msglog[c])])
    /\ corestatuschecks[c].age = (IF c \in DOMAIN duration THEN duration[c] ELSE -1)

\* from the initialisation of the records on: the tally is an int of its own,
\* every core has a record, a core not yet evaluated has the record
\* prepareCoreStatusDataStructure gave it, and an evaluated core has what its
\* own evaluation wrote
RecordsApart ==
    pc \in {"loop", "aggregate", "done", "returned", "fault"} =>
        /\ TallyIsInt
        /\ \A k \in 1..Len(corenames) :
              LET c == corenames[k]
              IN  /\ corestatuschecks[c].kind = "dict"
                  /\ (k > idx \/ (k = idx /\ pc = "loop")) => corestatuschecks[c] = NewCoreDict
                  /\ k < idx => OwnRecord(c)

\* one pass of the loop body leaves the record of every other core unchanged
FrameStep ==
    pc = "loop" =>
        \A c \in Cores \ {corenames[idx]} : corestatuschecks'[c] = corestatuschecks[c]

\* C12: evaluating and recording one core changes only that core's record
\* and the run tally, the records of all other cores stay as they were, and
\* the tally is state apart from every core's record, for every list of
\* unique core names, from the initialisation of the records through the
\* aggregation.
C12_FrameAndTallyApart == [][FrameStep]_vars /\ []RecordsApart

====
